---- MODULE Spec2Model ----
(***************************************************************************)
(* Model of src/app.py: the floor-plan pipeline of the AI floor plan       *)
(* generator.  generate_floor_plan_data validates the parsed response of   *)
(* the text-generation service, render_floor_plan rasterises a plan with   *)
(* PIL, and the Streamlit button handler runs one after the other.         *)
(*                                                                         *)
(* JSON values are tagged records [k, n, s]: k is the Python type of the   *)
(* value ("absent" for a key that is not in the mapping), n the number     *)
(* (a float carries its value in halves, so 1.5 is n = 3), s the string.   *)
(* The image is the sequence of calls made on the ImageDraw object; the    *)
(* colour of a pixel is obtained by replaying them in order (PixelAt).     *)
(***************************************************************************)
EXTENDS Integers, Sequences, FiniteSets, TLC

VARIABLES pc, mode, response, floor_plan_data, data, font, size, ops, idx,
          warnings, errors, image_bytes, exc

vars == <<pc, mode, response, floor_plan_data, data, font, size, ops, idx,
          warnings, errors, image_bytes, exc>>

\* ------------------------------------------------------------ bounds
\* Longest rooms list enumerated from RoomSet.
MaxRooms == 2

\* ------------------------------------------------------------ JSON values
JAbsent == [k |-> "absent", n |-> 0, s |-> ""]
JNull == [k |-> "null", n |-> 0, s |-> ""]
JInt(i) == [k |-> "int", n |-> i, s |-> ""]
JFloat(halves) == [k |-> "float", n |-> halves, s |-> ""]
JStr(t) == [k |-> "str", n |-> 0, s |-> t]
JList == [k |-> "list", n |-> 0, s |-> ""]

Raise(e) == [k |-> "raise", n |-> 0, s |-> e]
IsRaise(v) == v.k = "raise"
IsNum(v) == v.k \in {"int", "float"}

\* v * scale, with v a JSON value and scale a Python int.
Mul(v, c) ==
  CASE v.k = "int" -> JInt(v.n * c)
    [] v.k = "float" -> JFloat(v.n * c)
    [] v.k = "str" -> v
    [] v.k = "list" -> v
    [] OTHER -> Raise("TypeError")

\* a + b on Python values.
Add(a, b) ==
  CASE a.k = "int" /\ b.k = "int" -> JInt(a.n + b.n)
    [] a.k = "int" /\ b.k = "float" -> JFloat(2 * a.n + b.n)
    [] a.k = "float" /\ b.k = "int" -> JFloat(a.n + 2 * b.n)
    [] a.k = "float" /\ b.k = "float" -> JFloat(a.n + b.n)
    [] a.k = "str" /\ b.k = "str" -> a
    [] a.k = "list" /\ b.k = "list" -> a
    [] OTHER -> Raise("TypeError")

\* bool(v): the truth value Python gives a value (None for an absent key).
Truthy(v) ==
  CASE v.k = "int" -> v.n # 0
    [] v.k = "float" -> v.n # 0
    [] v.k = "str" -> v.s # ""
    [] v.k = "list" -> TRUE
    [] OTHER -> FALSE

\* The integer pixel coordinate the C drawing code takes from a number.
ToPixel(v) == IF v.k = "float" THEN v.n \div 2 ELSE v.n

\* ------------------------------------------------------------ plans
Room(x, y, w, h, t, nm) ==
  [k |-> "map", x |-> x, y |-> y, width |-> w, height |-> h, type |-> t, name |-> nm]
NonMapItem(kind) ==
  [k |-> kind, x |-> JAbsent, y |-> JAbsent, width |-> JAbsent, height |-> JAbsent,
   type |-> JAbsent, name |-> JAbsent]

Dims(l, b) == [k |-> "map", length |-> l, breadth |-> b]
NonMapDims(kind) == [k |-> kind, length |-> JAbsent, breadth |-> JAbsent]

RoomsList(items) == [k |-> "list", items |-> items]
RoomsOther(kind) == [k |-> kind, items |-> <<>>]

Plan(d, r) == [k |-> "map", dimensions |-> d, rooms |-> r, elems |-> <<>>]
NonMapPlan(kind, elems) ==
  [k |-> kind, dimensions |-> NonMapDims("absent"), rooms |-> RoomsOther("absent"),
   elems |-> elems]
NoPlan == NonMapPlan("None", <<>>)

\* ------------------------------------------------------------ validator
\* `key in v` for a parsed JSON value: key lookup in a mapping, element
\* membership in an array, substring search (by word) in a string.
KeyIn(key, v) ==
  CASE v.k = "map" ->
         IF key = "dimensions" THEN v.dimensions.k # "absent" ELSE v.rooms.k # "absent"
    [] v.k \in {"list", "str"} -> \E j \in 1..Len(v.elems) : v.elems[j] = key
    [] OTHER -> FALSE
SupportsIn(v) == v.k \in {"map", "list", "str"}

\* generate_floor_plan_data from the service's answer on (lines 52-67): the
\* plan it returns (NoPlan for None) and the st.error calls it makes.  The
\* `in` test of a number or null raises TypeError, which the last handler takes.
Validate(resp) ==
  CASE resp.kind = "api_error" -> [plan |-> NoPlan, err |-> <<"Unexpected">>]
    [] resp.kind = "bad_json" -> [plan |-> NoPlan, err |-> <<"Malformed">>]
    [] OTHER ->
         IF ~SupportsIn(resp.value)
         THEN [plan |-> NoPlan, err |-> <<"Unexpected">>]
         ELSE IF ~KeyIn("dimensions", resp.value) \/ ~KeyIn("rooms", resp.value)
         THEN [plan |-> NoPlan, err |-> <<"IncompleteSchema">>]
         ELSE [plan |-> resp.value, err |-> <<>>]

\* ------------------------------------------------------------ renderer
SCALE == 20

White == <<255, 255, 255>>
Black == <<0, 0, 0>>
NoColour == <<>>

room_colors ==
  [living_room |-> <<255, 200, 200>>,
   kitchen |-> <<200, 255, 200>>,
   bedroom |-> <<200, 200, 255>>,
   bathroom |-> <<255, 255, 200>>,
   door |-> <<100, 50, 0>>,
   hallway |-> <<230, 230, 230>>,
   default |-> <<240, 240, 240>>]

Max(a, b) == IF a >= b THEN a ELSE b

\* font_size = max(10, int(scale * 0.7))
FontSize == Max(10, (SCALE * 7) \div 10)
\* Cell of the built-in bitmap font ImageFont.load_default() falls back to.
DefaultCharW == 6
DefaultCharH == 11
Fonts == {"truetype", "default"}
\* Extent of one character cell of the resolved font: the ink of a label is
\* taken to fill the cells of its characters.
CharW(fnt) == IF fnt = "truetype" THEN FontSize \div 2 ELSE DefaultCharW
CharH(fnt) == IF fnt = "truetype" THEN FontSize ELSE DefaultCharH

RectOp(x0, y0, x1, y1, fill, outline, width, src) ==
  [op |-> "rectangle", x0 |-> x0, y0 |-> y0, x1 |-> x1, y1 |-> y1,
   fill |-> fill, outline |-> outline, width |-> width, text |-> "", src |-> src]

\* draw.text(xy, text, fill, font): the label's cells, from the anchor.
TextOp(x, y, text, fill, fnt, src) ==
  [op |-> "text", x0 |-> x, y0 |-> y,
   x1 |-> x + CharW(fnt) * Len(text) - 1, y1 |-> y + CharH(fnt) - 1,
   fill |-> fill, outline |-> NoColour, width |-> 0, text |-> text, src |-> src]

\* Lines 78 and 85: the border stroked on the new canvas.
BorderOp(w, h) == RectOp(0, 0, w, h, NoColour, Black, 3, 0)

\* Lines 72-76 and 78: the canvas size, None on a KeyError, or the exception
\* that leaves render_floor_plan.
RenderEntry(d) ==
  LET none == [k |-> "none", s |-> "", w |-> 0, h |-> 0]
      raise(e) == [k |-> "raise", s |-> e, w |-> 0, h |-> 0]
      w == Mul(d.dimensions.length, SCALE)
      h == Mul(d.dimensions.breadth, SCALE)
  IN  IF d.k # "map" THEN raise("TypeError")
      ELSE IF d.dimensions.k = "absent" THEN none
      ELSE IF d.dimensions.k # "map" THEN raise("TypeError")
      ELSE IF d.dimensions.length.k = "absent" THEN none
      ELSE IF IsRaise(w) THEN raise("TypeError")
      ELSE IF d.dimensions.breadth.k = "absent" THEN none
      ELSE IF IsRaise(h) THEN raise("TypeError")
      \* Image.new: the size must be two non-negative ints
      ELSE IF w.k # "int" THEN raise("TypeError")
      ELSE IF w.n < 0 THEN raise("ValueError")
      ELSE IF h.k # "int" THEN raise("TypeError")
      ELSE IF h.n < 0 THEN raise("ValueError")
      ELSE [k |-> "ok", s |-> "", w |-> w.n, h |-> h.n]

\* Line 95: data.get('rooms', []) as the loop iterates it.
RoomsIterReversed(d) ==
  LET its == d.rooms.items
  IN  [j \in 1..Len(its) |-> its[Len(its) + 1 - j]]

RoomsIter(d) == d.rooms.items
RoomsIterable(d) == d.rooms.k \in {"absent", "list"}

\* item[key] * scale
Scaled(item, key) ==
  IF item.k # "map" THEN Raise("TypeError")
  ELSE IF item[key].k = "absent" THEN Raise("KeyError")
  ELSE Mul(item[key], SCALE)

GeomRaise(e) ==
  [k |-> "raise", s |-> e, x |-> JNull, y |-> JNull, width |-> JNull, height |-> JNull]

\* A plausible slip: item.get(key, 0) in place of item[key].
RoomGeometryDefaultZero(item) ==
  LET get(key) == IF item.k = "map" /\ item[key].k # "absent"
                  THEN Mul(item[key], SCALE) ELSE JInt(0)
  IN  IF \E key \in {"x", "y", "width", "height"} : IsRaise(get(key))
      THEN GeomRaise("TypeError")
      ELSE [k |-> "ok", s |-> "", x |-> get("x"), y |-> get("y"),
            width |-> get("width"), height |-> get("height")]

\* Line 97, left to right.
RoomGeometry(item) ==
  LET gx == Scaled(item, "x")
      gy == Scaled(item, "y")
      gw == Scaled(item, "width")
      gh == Scaled(item, "height")
  IN  IF IsRaise(gx) THEN GeomRaise(gx.s)
      ELSE IF IsRaise(gy) THEN GeomRaise(gy.s)
      ELSE IF IsRaise(gw) THEN GeomRaise(gw.s)
      ELSE IF IsRaise(gh) THEN GeomRaise(gh.s)
      ELSE [k |-> "ok", s |-> "", x |-> gx, y |-> gy, width |-> gw, height |-> gh]

\* Line 98: room_colors.get(item.get('type', 'default'), room_colors['default']);
\* a list is unhashable and makes dict.get raise.
ResolveColor(item) ==
  LET key == IF item.type.k = "absent" THEN JStr("default") ELSE item.type
  IN  IF key.k = "list" THEN [k |-> "raise", c |-> NoColour]
      ELSE IF key.k = "str" /\ key.s \in DOMAIN room_colors
      THEN [k |-> "ok", c |-> room_colors[key.s]]
      ELSE [k |-> "ok", c |-> room_colors.default]

IsDoor(item) == item.type.k = "str" /\ item.type.s = "door"

\* Line 103 without its type test.
WantsLabelIgnoringDoor(item) == Truthy(item.name)

\* Line 103
WantsLabel(item) == Truthy(item.name) /\ ~IsDoor(item)

Skip(i, e) == [ops |-> <<>>, warn |-> <<[room |-> i, exc |-> e]>>]

\* Lines 96-108, one iteration of the loop: the draw calls that took effect
\* and the st.warning calls.
ProcessRoom(item, i, fnt) ==
  LET g == RoomGeometry(item)
      col == ResolveColor(item)
      x1 == Add(g.x, g.width)
      y1 == Add(g.y, g.height)
      rect == RectOp(ToPixel(g.x), ToPixel(g.y), ToPixel(x1), ToPixel(y1), col.c,
                     IF IsDoor(item) THEN col.c ELSE Black, 1, i)
      tx == Add(g.x, JInt(5))
      ty == Add(g.y, JInt(5))
      label == TextOp(ToPixel(tx), ToPixel(ty), item.name.s, Black, fnt, i)
  IN  IF g.k = "raise" THEN Skip(i, g.s)
      ELSE IF col.k = "raise" THEN Skip(i, "TypeError")
      ELSE IF IsRaise(x1) \/ IsRaise(y1) THEN Skip(i, "TypeError")
      ELSE IF ~(IsNum(g.x) /\ IsNum(g.y) /\ IsNum(x1) /\ IsNum(y1))
      THEN Skip(i, "TypeError")
      ELSE IF ~WantsLabel(item) THEN [ops |-> <<rect>>, warn |-> <<>>]
      ELSE IF item.name.k # "str"
      THEN [ops |-> <<rect>>, warn |-> <<[room |-> i, exc |-> "TypeError"]>>]
      ELSE [ops |-> <<rect, label>>, warn |-> <<>>]

\* The colour a draw call leaves on pixel (px, py), NoColour when it does not
\* touch it.  A rectangle covers x0..x1 by y0..y1, both ends included; its
\* outline is the ring of the given width, drawn when it differs from the fill.
OpColourAt(o, px, py) ==
  LET inBox == o.x0 <= px /\ px <= o.x1 /\ o.y0 <= py /\ py <= o.y1
      inRing == inBox /\ (\/ px < o.x0 + o.width \/ px > o.x1 - o.width
                          \/ py < o.y0 + o.width \/ py > o.y1 - o.width)
      stroked == o.outline # NoColour /\ o.outline # o.fill /\ o.width # 0
  IN  IF o.op = "text" THEN (IF inBox THEN o.fill ELSE NoColour)
      ELSE IF inRing /\ stroked THEN o.outline
      ELSE IF inBox /\ o.fill # NoColour THEN o.fill
      ELSE NoColour

\* The pixel after the first n draw calls on the white canvas of Image.new.
RECURSIVE PixelAfter(_, _, _, _)
PixelAfter(calls, n, px, py) ==
  IF n = 0 THEN White
  ELSE LET c == OpColourAt(calls[n], px, py)
       IN  IF c # NoColour THEN c ELSE PixelAfter(calls, n - 1, px, py)

PixelAt(calls, px, py) == PixelAfter(calls, Len(calls), px, py)

\* ------------------------------------------------------------ inputs
\* Room entries the service may hand over: well-formed ones, and entries with
\* a key missing, a value of another JSON type, or no mapping at all.
RoomSet ==
  { Room(JInt(0), JInt(0), JInt(2), JInt(1), JStr("kitchen"), JStr("K")),
    Room(JInt(0), JInt(0), JInt(1), JInt(1), JStr("bedroom"), JStr("A")),
    Room(JInt(1), JInt(0), JInt(1), JInt(1), JStr("living_room"), JAbsent),
    Room(JInt(0), JInt(0), JInt(1), JInt(1), JStr("door"), JStr("Doorway")),
    Room(JInt(1), JInt(0), JInt(1), JInt(1), JStr("loft"), JStr("")),
    Room(JInt(0), JInt(0), JInt(1), JInt(1), JAbsent, JStr("Room A")),
    Room(JFloat(1), JInt(0), JInt(1), JInt(1), JNull, JStr("B")),
    Room(JInt(0), JInt(0), JInt(1), JInt(1), JList, JStr("A")),
    Room(JAbsent, JInt(0), JInt(1), JInt(1), JStr("bedroom"), JStr("A")),
    Room(JInt(0), JInt(0), JInt(1), JAbsent, JStr("door"), JAbsent),
    Room(JInt(0), JInt(0), JInt(1), JInt(1), JStr("bedroom"), JInt(5)),
    Room(JStr("0"), JInt(0), JInt(1), JInt(1), JStr("hallway"), JStr("A")),
    NonMapItem("int") }

RoomLists == UNION { [1..n -> RoomSet] : n \in 0..MaxRooms }

\* Values met under dimensions.length and dimensions.breadth.
LenVals == {JAbsent, JNull, JInt(1), JInt(2), JInt(-1), JFloat(3), JStr("10")}
DimVals ==
  {NonMapDims("absent"), NonMapDims("null"), NonMapDims("int")}
    \cup {Dims(l, b) : l \in LenVals, b \in LenVals}
RoomsVals ==
  {RoomsOther("absent"), RoomsOther("null"), RoomsList(<<>>),
   RoomsList(<<Room(JInt(0), JInt(0), JInt(1), JInt(1), JStr("bedroom"), JStr("A"))>>)}

\* Every shape of the top-level value, with few rooms.
ShapePlans ==
  {Plan(d, r) : d \in DimVals, r \in RoomsVals}
    \cup {NonMapPlan("null", <<>>), NonMapPlan("int", <<>>),
          NonMapPlan("str", <<"abc">>), NonMapPlan("str", <<"dimensions", "rooms">>),
          NonMapPlan("list", <<>>), NonMapPlan("list", <<"rooms">>),
          NonMapPlan("list", <<"dimensions", "rooms">>)}

\* Every rooms list, on a canvas of 2 by 1 feet.
RoomPlans == {Plan(Dims(JInt(2), JInt(1)), RoomsList(rs)) : rs \in RoomLists}

\* The two end-to-end scenarios.
RoomAPlan ==
  Plan(Dims(JInt(10), JInt(10)),
       RoomsList(<<Room(JInt(0), JInt(0), JInt(10), JInt(10), JStr("bedroom"),
                        JStr("Room A"))>>))
BlankPlan == Plan(Dims(JInt(5), JInt(5)), RoomsList(<<>>))

Plans == ShapePlans \cup RoomPlans \cup {RoomAPlan, BlankPlan}

\* What lines 53-55 come to: the call or response.text raises, json.loads
\* raises JSONDecodeError, or json.loads returns a value.
Responses ==
  {[kind |-> "api_error", value |-> NoPlan], [kind |-> "bad_json", value |-> NoPlan]}
    \cup {[kind |-> "json", value |-> v] : v \in ShapePlans \cup {RoomAPlan, BlankPlan}}
NoResponse == [kind |-> "none", value |-> NoPlan]

NoImage == [k |-> "unset", size |-> <<0, 0>>, ops |-> <<>>]
NoneImage == [k |-> "None", size |-> <<0, 0>>, ops |-> <<>>]

\* ------------------------------------------------------------ state machine
Init ==
  /\ pc = "idle"
  /\ mode = "none"
  /\ response = NoResponse
  /\ floor_plan_data = NoPlan
  /\ data = NoPlan
  /\ font = "none"
  /\ size = <<0, 0>>
  /\ ops = <<>>
  /\ idx = 0
  /\ warnings = <<>>
  /\ errors = <<>>
  /\ image_bytes = NoImage
  /\ exc = "none"

\* Lines 238-241 and 259-260: the button is pressed; an empty description gets
\* the st.warning of line 260, another one is sent to the service.
Press ==
  /\ pc = "idle"
  /\ mode' = "ui"
  /\ \/ /\ pc' = "end"
        /\ warnings' = <<[room |-> 0, exc |-> "NoDescription"]>>
        /\ UNCHANGED response
     \/ /\ \E r \in Responses : response' = r
        /\ pc' = "generate"
        /\ UNCHANGED warnings
  /\ UNCHANGED <<floor_plan_data, data, font, size, ops, idx, errors, image_bytes, exc>>

\* Line 241: generate_floor_plan_data(user_description)
Generate ==
  /\ pc = "generate"
  /\ floor_plan_data' = Validate(response).plan
  /\ errors' = errors \o Validate(response).err
  /\ pc' = "validated"
  /\ UNCHANGED <<mode, response, data, font, size, ops, idx, warnings, image_bytes, exc>>

\* Lines 243-244 and 257-258: render a plan, report a missing one.  Whatever
\* the validator returns other than None holds both keys and so is truthy.
Branch ==
  /\ pc = "validated"
  /\ IF floor_plan_data # NoPlan
     THEN /\ data' = floor_plan_data
          /\ pc' = "render"
          /\ UNCHANGED errors
     ELSE /\ errors' = Append(errors, "NoPlanData")
          /\ pc' = "end"
          /\ UNCHANGED data
  /\ UNCHANGED <<mode, response, floor_plan_data, font, size, ops, idx, warnings,
                 image_bytes, exc>>

\* render_floor_plan called on a value of the caller's own.
CallRender ==
  /\ pc = "idle"
  /\ mode' = "direct"
  /\ \E d \in Plans : data' = d
  /\ pc' = "render"
  /\ UNCHANGED <<response, floor_plan_data, font, size, ops, idx, warnings, errors,
                 image_bytes, exc>>

\* Lines 71-95: size, canvas, font, border, and the start of the loop.
RenderBegin ==
  /\ pc = "render"
  /\ LET e == RenderEntry(data)
     IN  CASE e.k = "raise" ->
                /\ pc' = "raised"
                /\ exc' = e.s
                /\ UNCHANGED <<font, size, ops, image_bytes>>
           [] e.k = "none" ->
                /\ pc' = "returned"
                /\ image_bytes' = NoneImage
                /\ UNCHANGED <<font, size, ops, exc>>
           [] OTHER ->
                /\ \E f \in Fonts : font' = f
                /\ size' = <<e.w, e.h>>
                /\ ops' = <<BorderOp(e.w, e.h)>>
                /\ IF RoomsIterable(data)
                   THEN pc' = "loop" /\ UNCHANGED exc
                   ELSE pc' = "raised" /\ exc' = "TypeError"
                /\ UNCHANGED image_bytes
  /\ idx' = 1
  /\ UNCHANGED <<mode, response, floor_plan_data, data, warnings, errors>>

\* Lines 96-108: one iteration.
RoomStep ==
  /\ pc = "loop"
  /\ idx <= Len(RoomsIter(data))
  /\ LET r == ProcessRoom(RoomsIter(data)[idx], idx, font)
     IN  /\ ops' = ops \o r.ops
         /\ warnings' = warnings \o r.warn
  /\ idx' = idx + 1
  /\ UNCHANGED <<pc, mode, response, floor_plan_data, data, font, size, errors,
                 image_bytes, exc>>

\* Lines 109-112: the loop is over; the image is saved and returned.
RenderEnd ==
  /\ pc = "loop"
  /\ idx > Len(RoomsIter(data))
  /\ image_bytes' = [k |-> "png", size |-> size, ops |-> ops]
  /\ pc' = "returned"
  /\ UNCHANGED <<mode, response, floor_plan_data, data, font, size, ops, idx,
                 warnings, errors, exc>>

\* Lines 246-256: show the image, or report that there is none.
ShowResult ==
  /\ pc = "returned"
  /\ mode = "ui"
  /\ IF image_bytes.k = "png"
     THEN UNCHANGED errors
     ELSE errors' = Append(errors, "RenderFailed")
  /\ pc' = "end"
  /\ UNCHANGED <<mode, response, floor_plan_data, data, font, size, ops, idx,
                 warnings, image_bytes, exc>>

Next ==
  \/ Press
  \/ Generate
  \/ Branch
  \/ CallRender
  \/ RenderBegin
  \/ RoomStep
  \/ RenderEnd
  \/ ShowResult

Spec == Init /\ [][Next]_vars

\* ------------------------------------------------------------ vocabulary
Items == data.rooms.items
\* The loop has finished with entry i.
RoomDone(i) == pc \in {"loop", "returned", "end"} /\ i \in 1..(idx - 1)
Finished == pc \in {"returned", "end"} /\ image_bytes.k = "png"

WarnCount(i) == Cardinality({j \in 1..Len(warnings) : warnings[j].room = i})
RectOps(i) == {j \in 1..Len(ops) : ops[j].src = i /\ ops[j].op = "rectangle"}
TextOps(i) == {j \in 1..Len(ops) : ops[j].src = i /\ ops[j].op = "text"}

GeometryKeys == {"x", "y", "width", "height"}
LacksGeometry(item) ==
  item.k = "map" /\ \E key \in GeometryKeys : item[key].k = "absent"
\* The shape of a room in the response structure: numbers for the geometry
\* (a positive extent), strings for name and type when present.
WellFormed(item) ==
  /\ item.k = "map"
  /\ \A key \in GeometryKeys : IsNum(item[key])
  /\ item.x.n >= 0 /\ item.y.n >= 0 /\ item.width.n > 0 /\ item.height.n > 0
  /\ item.type.k \in {"absent", "str"}
  /\ item.name.k \in {"absent", "str"}
\* A room with a rectangle to draw, whatever its type and name.
Drawable(item) ==
  /\ item.k = "map"
  /\ \A key \in GeometryKeys : IsNum(item[key])
  /\ item.x.n >= 0 /\ item.y.n >= 0 /\ item.width.n > 0 /\ item.height.n > 0

\* A number of feet in pixels.
Px(v) == IF v.k = "float" THEN (v.n * SCALE) \div 2 ELSE v.n * SCALE

\* (C1) Every plan with positive dimensions.length and dimensions.breadth and a
\* list under rooms is rendered to an image of (length*SCALE, breadth*SCALE)
\* pixels, and no exception leaves render_floor_plan.
ValidPlan(d) ==
  /\ d.k = "map" /\ d.dimensions.k = "map" /\ d.rooms.k = "list"
  /\ IsNum(d.dimensions.length) /\ d.dimensions.length.n > 0
  /\ IsNum(d.dimensions.breadth) /\ d.dimensions.breadth.n > 0
C1_ValidPlanRendersToScaledImage ==
  ValidPlan(data) =>
    /\ pc # "raised"
    /\ pc \in {"returned", "end"} =>
         /\ image_bytes.k = "png"
         /\ image_bytes.size = <<Px(data.dimensions.length), Px(data.dimensions.breadth)>>

\* (C2) An entry of the rooms list that lacks x, y, width or height is skipped
\* with exactly one warning and no draw call; a well-formed entry is drawn with
\* no warning, wherever it stands; no exception leaves the loop and the image
\* is returned; with only such entries the warnings number the malformed rooms.
C2_MalformedRoomsSkippedWithOneWarning ==
  /\ \A i \in 1..Len(Items) :
       RoomDone(i) =>
         /\ LacksGeometry(Items[i]) =>
              WarnCount(i) = 1 /\ RectOps(i) = {} /\ TextOps(i) = {}
         /\ WellFormed(Items[i]) =>
              /\ WarnCount(i) = 0
              /\ \E j \in RectOps(i) :
                   /\ ops[j].x0 = Px(Items[i].x)
                   /\ ops[j].y0 = Px(Items[i].y)
                   /\ ops[j].x1 = Px(Items[i].x) + Px(Items[i].width)
                   /\ ops[j].y1 = Px(Items[i].y) + Px(Items[i].height)
  /\ (data.rooms.k = "list" /\ size # <<0, 0>>) => pc # "raised"
  /\ (pc \in {"returned", "end"} /\ size # <<0, 0>>) =>
       /\ image_bytes.k = "png"
       /\ image_bytes.ops = ops
       /\ (\A i \in 1..Len(Items) : LacksGeometry(Items[i]) \/ WellFormed(Items[i])) =>
            Len(warnings) = Cardinality({i \in 1..Len(Items) : LacksGeometry(Items[i])})

\* A malformed entry followed by a well-formed one: one warning, one image.
C2_Witness ==
  /\ Finished
  /\ \E i, j \in 1..Len(Items) :
       /\ i < j
       /\ LacksGeometry(Items[i])
       /\ WellFormed(Items[j])
       /\ RectOps(j) # {}
  /\ Len(warnings) = 1

\* (C3) A parsed payload that does not have both the dimensions and the rooms
\* key, whatever its shape, gets the IncompleteSchema failure and is never
\* returned as a plan; only a mapping with both keys is returned.
HasBothKeys(v) == v.k = "map" /\ v.dimensions.k # "absent" /\ v.rooms.k # "absent"
C3_IncompletePayloadIsIncompleteSchema ==
  (pc = "validated" /\ response.kind = "json") =>
    /\ ~HasBothKeys(response.value) =>
         floor_plan_data = NoPlan /\ errors = <<"IncompleteSchema">>
    /\ floor_plan_data # NoPlan => HasBothKeys(response.value)

\* (C4) A generate request surfaces exactly one error message when validation
\* fails or render returns None, and none when an image is produced.
C4_AtMostOneFatalDiagnostic ==
  (pc = "end" /\ mode = "ui" /\ response # NoResponse) =>
    Len(errors) = IF image_bytes.k = "png" THEN 0 ELSE 1

\* (C5) A drawn room of type "door" gets no label, whatever its name, and a
\* rectangle whose outline is its fill; a drawn room of another type with a
\* non-empty name gets its label at (x*SCALE+5, y*SCALE+5).
TypeIsDoor(item) == item.k = "map" /\ item.type = JStr("door")
C5_DoorsUnlabelledOthersLabelled ==
  \A i \in 1..Len(Items) :
    RoomDone(i) =>
      LET item == Items[i]
      IN  /\ TypeIsDoor(item) =>
                /\ TextOps(i) = {}
                /\ \A j \in RectOps(i) : ops[j].outline = ops[j].fill
                /\ Drawable(item) => RectOps(i) # {}
          /\ (~TypeIsDoor(item) /\ RectOps(i) # {}
                /\ item.name.k = "str" /\ item.name.s # "") =>
                \E j \in TextOps(i) :
                  /\ ops[j].x0 = Px(item.x) + 5
                  /\ ops[j].y0 = Px(item.y) + 5
                  /\ ops[j].text = item.name.s
                  /\ \A r \in RectOps(i) : r < j

\* A named door drawn without a label, and a named room drawn with one.
C5_Witness ==
  /\ Finished
  /\ \E i, j \in 1..Len(Items) :
       /\ TypeIsDoor(Items[i]) /\ Items[i].name.s # ""
       /\ RectOps(i) # {} /\ TextOps(i) = {}
       /\ ~TypeIsDoor(Items[j]) /\ TextOps(j) # {}

\* (C6) Every drawable room is filled with the colour of its type when that is
\* one of the six recognized categories and with the default colour for any
\* other or absent type; the type never makes the room be skipped.
Recognized == {"living_room", "kitchen", "bedroom", "bathroom", "door", "hallway"}
FillOf(item) ==
  IF item.type.k = "str" /\ item.type.s \in Recognized
  THEN room_colors[item.type.s] ELSE room_colors.default
C6_ColourIsTotalInType ==
  \A i \in 1..Len(Items) :
    (RoomDone(i) /\ Drawable(Items[i])) =>
      \E j \in RectOps(i) : ops[j].fill = FillOf(Items[i])

\* What a room is to paint, read off the entry itself: its rectangle when the
\* geometry is numeric and the type can be looked up, its label when it has a
\* non-empty string for a name and is no door.
PaintsRect(item) ==
  item.k = "map" /\ (\A key \in GeometryKeys : IsNum(item[key])) /\ item.type.k # "list"
InRect(item, px, py) ==
  /\ PaintsRect(item)
  /\ Px(item.x) <= px /\ px <= Px(item.x) + Px(item.width)
  /\ Px(item.y) <= py /\ py <= Px(item.y) + Px(item.height)
OnOutline(item, px, py) ==
  /\ InRect(item, px, py)
  /\ \/ px = Px(item.x) \/ px = Px(item.x) + Px(item.width)
     \/ py = Px(item.y) \/ py = Px(item.y) + Px(item.height)
InLabel(item, px, py) ==
  /\ PaintsRect(item) /\ ~TypeIsDoor(item)
  /\ item.name.k = "str" /\ item.name.s # ""
  /\ Px(item.x) + 5 <= px /\ px < Px(item.x) + 5 + CharW(font) * Len(item.name.s)
  /\ Px(item.y) + 5 <= py /\ py < Px(item.y) + 5 + CharH(font)
\* The colour the room's own paint leaves on the pixel.
RoomInkAt(item, px, py) ==
  IF InLabel(item, px, py) THEN Black
  ELSE IF OnOutline(item, px, py) /\ ~TypeIsDoor(item) THEN Black
  ELSE IF InRect(item, px, py) THEN FillOf(item)
  ELSE NoColour
\* The pixel of the canvas before the first room: background or border.
CanvasInit(px, py) == PixelAfter(image_bytes.ops, 1, px, py)
LastOf(S) == CHOOSE i \in S : \A j \in S : j <= i

\* (C7) as claimed: a pixel inside the rectangle of a drawn room carries the
\* colour painted there by the last room of the sequence whose rectangle covers
\* it, and a pixel inside no rectangle keeps the background or border colour.
C7_LastCoveringRectangleDecidesPixel ==
  Finished =>
    \A px \in 0..(size[1] - 1), py \in 0..(size[2] - 1) :
      LET covering == {i \in 1..Len(Items) : InRect(Items[i], px, py)}
      IN  PixelAt(image_bytes.ops, px, py) =
            IF covering = {} THEN CanvasInit(px, py)
            ELSE RoomInkAt(Items[LastOf(covering)], px, py)

\* (C7) amended: every pixel carries the colour of the last paint, in the order
\* of the rooms sequence, that touches it, where the paint of a room is its
\* rectangle and its label and the label may reach beyond the rectangle; a
\* pixel no paint touches keeps the background or border colour.
C7_LastPaintInPlanOrderDecidesPixel ==
  Finished =>
    \A px \in 0..(size[1] - 1), py \in 0..(size[2] - 1) :
      LET touching == {i \in 1..Len(Items) : RoomInkAt(Items[i], px, py) # NoColour}
      IN  PixelAt(image_bytes.ops, px, py) =
            IF touching = {} THEN CanvasInit(px, py)
            ELSE RoomInkAt(Items[LastOf(touching)], px, py)

\* Two rooms of different colours overlap and the later one shows, while the
\* label of a room has ink outside the room's rectangle.
C7_Witness ==
  /\ Finished
  /\ \E i, j \in 1..Len(Items) :
       /\ i < j
       /\ FillOf(Items[i]) # FillOf(Items[j])
       /\ \E px \in 0..(size[1] - 1), py \in 0..(size[2] - 1) :
            /\ InRect(Items[i], px, py) /\ InRect(Items[j], px, py)
            /\ ~OnOutline(Items[j], px, py) /\ ~InLabel(Items[j], px, py)
            /\ PixelAt(image_bytes.ops, px, py) = FillOf(Items[j])
  /\ \E i \in 1..Len(Items) :
       \E px \in 0..(size[1] - 1), py \in 0..(size[2] - 1) :
         InLabel(Items[i], px, py) /\ ~InRect(Items[i], px, py)

\* (C8) The 10 by 10 plan with the single bedroom "Room A" over all of it gives
\* an image of 200 by 200 pixels whose outer edge is black on all four sides,
\* filled with the bedroom colour inside that edge except under the label,
\* which is anchored at (5, 5).
C8_RoomAScenario ==
  (data = RoomAPlan /\ pc \in {"returned", "end"}) =>
    LET w == 10 * SCALE
        h == 10 * SCALE
        img == image_bytes.ops
        edge(px, py) == px = 0 \/ py = 0 \/ px = w - 1 \/ py = h - 1
    IN  /\ image_bytes.k = "png"
        /\ image_bytes.size = <<w, h>>
        /\ \E j \in TextOps(1) :
             ops[j].x0 = 5 /\ ops[j].y0 = 5 /\ ops[j].text = "Room A"
        /\ \A px \in 0..(w - 1), py \in 0..(h - 1) :
             IF edge(px, py) THEN PixelAt(img, px, py) = Black
             ELSE InLabel(Items[1], px, py) \/ PixelAt(img, px, py) = room_colors.bedroom

\* (C9) render_floor_plan returns None exactly when the plan lacks dimensions
\* or dimensions lacks length or breadth; any other plan the validator let
\* through gives an image, never None and never an exception.
LacksDimensions(d) ==
  \/ d.dimensions.k = "absent"
  \/ /\ d.dimensions.k = "map"
     /\ d.dimensions.length.k = "absent" \/ d.dimensions.breadth.k = "absent"
C9_NoneOnlyForMissingDimensions ==
  /\ (pc \in {"returned", "raised"} /\ data.k = "map") =>
       (image_bytes.k = "None" <=> LacksDimensions(data))
  /\ (pc \in {"returned", "raised"} /\ mode = "ui" /\ ~LacksDimensions(data)) =>
       image_bytes.k = "png"

\* (C10) A room whose processing records a warning leaves the canvas as it was
\* before that room.
OpsThrough(i) == Cardinality({j \in 1..Len(ops) : ops[j].src <= i})
C10_WarnedRoomLeavesCanvasUnchanged ==
  \A i \in 1..Len(Items) :
    (RoomDone(i) /\ WarnCount(i) > 0) =>
      \A px \in 0..(size[1] - 1), py \in 0..(size[2] - 1) :
        PixelAfter(ops, OpsThrough(i), px, py) = PixelAfter(ops, OpsThrough(i - 1), px, py)

====
